---- MODULE Spec2Model ----
(***************************************************************************)
(* Model of the Infinitton driver (src/index.js): the key-state tracker    *)
(* fed by the HID 'data' stream, and the panel codec that turns fill,      *)
(* clear and brightness operations into transport writes.                  *)
(*                                                                         *)
(* JavaScript values are tagged pairs <<type, n>> so that the strict       *)
(* comparison of the source (!==) and its number coercions can be modelled *)
(* as the language defines them.                                           *)
(***************************************************************************)
EXTENDS Integers, Sequences, FiniteSets, TLC

VARIABLES
    keyState,      \* this.keyState: key index -> JavaScript value
    prevKeyState,  \* this.keyState as it was before the latest inbound delivery
    lastReport,    \* the latest inbound delivery: its kind, the report's bytes, the error
    prevReport,    \* the inbound delivery before the latest
    lastEvent,     \* key index -> name of the latest event emitted for the key
    emitted,       \* events emitted to listeners by the latest inbound delivery
    nReports,      \* number of inbound deliveries so far
    sent,          \* every buffer the device handle accepted, in order
    prevSent,      \* sent as it was before the latest public operation
    lastCall,      \* the latest public operation, its arguments and its outcome
    innerCalls,    \* the _fillImageInner invocations of the latest operation
    closeCalls,    \* number of times device.close() has been invoked
    threw,         \* number of device calls of the latest operation that threw
    nCalls         \* number of public operations so far

trackerVars == <<keyState, prevKeyState, lastReport, prevReport, lastEvent, emitted, nReports>>
codecVars == <<sent, prevSent, lastCall, innerCalls, closeCalls, threw, nCalls>>
vars == <<keyState, prevKeyState, lastReport, prevReport, lastEvent, emitted, nReports,
          sent, prevSent, lastCall, innerCalls, closeCalls, threw, nCalls>>

(***************************************************************************)
(* Bounds of the model.                                                    *)
(***************************************************************************)
MaxReports == 3
MaxCalls == 2
MaxFailAt == 3

(***************************************************************************)
(* Program constants.                                                      *)
(***************************************************************************)
NUM_KEYS == 15
NUM_KEYS_PER_ROW == 5
PAGE_PACKET_SIZE == 8017
ICON_SIZE == 72
NUM_TOTAL_PIXELS == 72 * 72

KeyIndices == 0 .. (NUM_KEYS - 1)

(***************************************************************************)
(* JavaScript values and the operators the source applies to them.         *)
(***************************************************************************)
JsNum(n) == <<"number", n>>
JsFalse == <<"boolean", 0>>
JsUndefined == <<"undefined", 0>>
JsNaN == <<"NaN", 0>>

\* a !== b
StrictNotEqual(a, b) == IF a[1] = "NaN" \/ b[1] = "NaN" THEN TRUE ELSE a # b

\* if (v) ...
Truthy(v) == v[1] \in {"number", "boolean"} /\ v[2] # 0

\* ToNumber: undefined becomes NaN, false becomes 0
ToNumber(v) ==
    IF v[1] = "number" THEN v
    ELSE IF v[1] = "boolean" THEN JsNum(v[2])
    ELSE JsNaN

\* ToInt32, as applied by the bitwise operators: NaN becomes 0
ToInt32(v) == IF ToNumber(v)[1] = "number" THEN ToNumber(v)[2] ELSE 0

JsMul(a, b) ==
    IF ToNumber(a)[1] = "NaN" \/ ToNumber(b)[1] = "NaN" THEN JsNaN
    ELSE JsNum(ToNumber(a)[2] * ToNumber(b)[2])

JsAdd(a, b) ==
    IF ToNumber(a)[1] = "NaN" \/ ToNumber(b)[1] = "NaN" THEN JsNaN
    ELSE JsNum(ToNumber(a)[2] + ToNumber(b)[2])

RECURSIVE AndBits(_, _)
AndBits(a, b) ==
    IF a = 0 \/ b = 0 THEN 0
    ELSE (a % 2) * (b % 2) + 2 * AndBits(a \div 2, b \div 2)

\* a & b
BitAnd(a, b) == JsNum(AndBits(ToInt32(a), ToInt32(b)))

\* data[i] on a Buffer: undefined past the end
\* variant: report bytes counted from one
DataAtOneBased(data, i) == IF i > 0 /\ i <= Len(data) THEN JsNum(data[i]) ELSE JsUndefined

DataAt(data, i) == IF i < Len(data) THEN JsNum(data[i + 1]) ELSE JsUndefined

(***************************************************************************)
(* Key-state tracker.                                                      *)
(***************************************************************************)
Event(name, key, err) == [name |-> name, key |-> key, err |-> err]

\* this.keyState = new Array(NUM_KEYS).fill(false)
InitialKeyState == [k \in KeyIndices |-> JsFalse]

\* variant: the new state is not stored
keyIsPressedNoStore(ks, keyIndex, keyPressed) ==
    LET stateChanged == StrictNotEqual(keyPressed, ks[keyIndex])
    IN  IF stateChanged
        THEN [keyState |-> ks,
              emitted |-> IF Truthy(keyPressed)
                          THEN <<Event("down", keyIndex, "none")>>
                          ELSE <<Event("up", keyIndex, "none")>>]
        ELSE [keyState |-> ks, emitted |-> <<>>]

\* variant: an event for every key pressed in the report, changed or not
keyIsPressedLevel(ks, keyIndex, keyPressed) ==
    LET stateChanged == StrictNotEqual(keyPressed, ks[keyIndex])
    IN  IF stateChanged \/ Truthy(keyPressed)
        THEN [keyState |-> [ks EXCEPT ![keyIndex] = keyPressed],
              emitted |-> IF Truthy(keyPressed)
                          THEN <<Event("down", keyIndex, "none")>>
                          ELSE <<Event("up", keyIndex, "none")>>]
        ELSE [keyState |-> ks, emitted |-> <<>>]

keyIsPressed(ks, keyIndex, keyPressed) ==
    LET stateChanged == StrictNotEqual(keyPressed, ks[keyIndex])
    IN  IF stateChanged
        THEN [keyState |-> [ks EXCEPT ![keyIndex] = keyPressed],
              emitted |-> IF Truthy(keyPressed)
                          THEN <<Event("down", keyIndex, "none")>>
                          ELSE <<Event("up", keyIndex, "none")>>]
        ELSE [keyState |-> ks, emitted |-> <<>>]

\* variant: the same reads made in ascending key order
KeyReadsAscending ==
    << [key |-> 0, byte |-> 1, mask |-> 1],
       [key |-> 1, byte |-> 1, mask |-> 2],
       [key |-> 2, byte |-> 1, mask |-> 4],
       [key |-> 3, byte |-> 1, mask |-> 8],
       [key |-> 4, byte |-> 1, mask |-> 16],
       [key |-> 5, byte |-> 1, mask |-> 32],
       [key |-> 6, byte |-> 1, mask |-> 64],
       [key |-> 7, byte |-> 1, mask |-> 128],
       [key |-> 8, byte |-> 2, mask |-> 1],
       [key |-> 9, byte |-> 2, mask |-> 2],
       [key |-> 10, byte |-> 2, mask |-> 4],
       [key |-> 11, byte |-> 2, mask |-> 8],
       [key |-> 12, byte |-> 2, mask |-> 16],
       [key |-> 13, byte |-> 2, mask |-> 32],
       [key |-> 14, byte |-> 2, mask |-> 64] >>

\* the keyIsPressed calls of the 'data' handler, in statement order
KeyReads ==
    << [key |-> 4, byte |-> 1, mask |-> 16],
       [key |-> 3, byte |-> 1, mask |-> 8],
       [key |-> 2, byte |-> 1, mask |-> 4],
       [key |-> 1, byte |-> 1, mask |-> 2],
       [key |-> 0, byte |-> 1, mask |-> 1],
       [key |-> 9, byte |-> 2, mask |-> 2],
       [key |-> 8, byte |-> 2, mask |-> 1],
       [key |-> 7, byte |-> 1, mask |-> 128],
       [key |-> 6, byte |-> 1, mask |-> 64],
       [key |-> 5, byte |-> 1, mask |-> 32],
       [key |-> 14, byte |-> 2, mask |-> 64],
       [key |-> 13, byte |-> 2, mask |-> 32],
       [key |-> 12, byte |-> 2, mask |-> 16],
       [key |-> 11, byte |-> 2, mask |-> 8],
       [key |-> 10, byte |-> 2, mask |-> 4] >>

RECURSIVE OnDataFrom(_, _, _, _)
OnDataFrom(i, data, ks, evs) ==
    IF i > Len(KeyReads) THEN [keyState |-> ks, emitted |-> evs]
    ELSE LET rd == KeyReads[i]
             r == keyIsPressed(ks, rd.key, BitAnd(DataAt(data, rd.byte), JsNum(rd.mask)))
         IN  OnDataFrom(i + 1, data, r.keyState, evs \o r.emitted)

\* this.device.on('data', data => { ... })
OnData(data, ks) == OnDataFrom(1, data, ks, <<>>)

\* inbound reports the transport delivers in this model
Reports ==
    { <<>>, <<1>>, <<1, 16>>, <<1, 255>>,
      <<1, 0, 0>>, <<0, 0, 0>>, <<1, 16, 0>>, <<1, 17, 0>>, <<1, 129, 1>>,
      <<1, 0, 65>>, <<1, 0, 128>>, <<1, 255, 127>>, <<1, 16, 1, 255>> }

TransportErrors == {"ENODEV", "EIO"}

\* the name of the latest event for key k once evs have been emitted
LatestEvent(evs, k, before) ==
    LET mine == SelectSeq(evs, LAMBDA e : e.key = k)
    IN  IF mine = <<>> THEN before ELSE mine[Len(mine)].name

DeliverData(data) ==
    /\ nReports < MaxReports
    /\ LET r == OnData(data, keyState)
       IN  /\ keyState' = r.keyState
           /\ emitted' = r.emitted
           /\ lastEvent' = [k \in KeyIndices |-> LatestEvent(r.emitted, k, lastEvent[k])]
    /\ prevKeyState' = keyState
    /\ prevReport' = lastReport
    /\ lastReport' = [kind |-> "data", data |-> data, err |-> "none"]
    /\ nReports' = nReports + 1
    /\ UNCHANGED codecVars

\* variant: an error also forgets which keys are held
DeliverErrorResets(err) ==
    /\ nReports < MaxReports
    /\ emitted' = <<Event("error", -1, err)>>
    /\ keyState' = InitialKeyState
    /\ prevKeyState' = keyState
    /\ prevReport' = lastReport
    /\ lastReport' = [kind |-> "error", data |-> <<>>, err |-> err]
    /\ nReports' = nReports + 1
    /\ UNCHANGED <<lastEvent, codecVars>>

\* this.device.on('error', err => { this.emit('error', err) })
DeliverError(err) ==
    /\ nReports < MaxReports
    /\ emitted' = <<Event("error", -1, err)>>
    /\ prevKeyState' = keyState
    /\ prevReport' = lastReport
    /\ lastReport' = [kind |-> "error", data |-> <<>>, err |-> err]
    /\ nReports' = nReports + 1
    /\ UNCHANGED <<keyState, lastEvent, codecVars>>

TrackerInit ==
    /\ keyState = InitialKeyState
    /\ prevKeyState = InitialKeyState
    /\ lastReport = [kind |-> "none", data |-> <<>>, err |-> "none"]
    /\ prevReport = [kind |-> "none", data |-> <<>>, err |-> "none"]
    /\ lastEvent = [k \in KeyIndices |-> "none"]
    /\ emitted = <<>>
    /\ nReports = 0

(***************************************************************************)
(* Buffers.  A Buffer is a sequence of segments; a segment of length len   *)
(* holds the bytes pat[off], pat[off+1], ... of the endlessly repeated     *)
(* byte pattern pat.  Buffer.alloc, Buffer.from, slice, copy and readUInt8 *)
(* are defined on this representation byte for byte.                       *)
(***************************************************************************)
Min(a, b) == IF a < b THEN a ELSE b
Max(a, b) == IF a > b THEN a ELSE b

Segment(len, off, pat) == [len |-> len, off |-> off, pat |-> pat]

\* Buffer.alloc(size): zero-filled
BufferAlloc(size) == IF size = 0 THEN <<>> ELSE <<Segment(size, 0, <<0>>)>>

\* Buffer.from([...]): each element stored modulo 256
BufferFrom(bytes) ==
    IF Len(bytes) = 0 THEN <<>>
    ELSE <<Segment(Len(bytes), 0, [i \in 1 .. Len(bytes) |-> bytes[i] % 256])>>


RECURSIVE BufLen(_)
BufLen(buf) == IF buf = <<>> THEN 0 ELSE buf[1].len + BufLen(Tail(buf))

RECURSIVE BufTake(_, _)
BufTake(buf, n) ==
    IF n <= 0 \/ buf = <<>> THEN <<>>
    ELSE IF buf[1].len <= n THEN <<buf[1]>> \o BufTake(Tail(buf), n - buf[1].len)
    ELSE <<Segment(n, buf[1].off, buf[1].pat)>>

RECURSIVE BufDrop(_, _)
BufDrop(buf, n) ==
    IF buf = <<>> THEN <<>>
    ELSE IF n <= 0 THEN buf
    ELSE IF buf[1].len <= n THEN BufDrop(Tail(buf), n - buf[1].len)
    ELSE <<Segment(buf[1].len - n, buf[1].off + n, buf[1].pat)>> \o Tail(buf)

\* buf.slice(start, end), for 0 <= start: end is clamped to the length
Slice(buf, start, end) ==
    BufTake(BufDrop(buf, start), Min(end, BufLen(buf)) - start)

\* src.copy(target, targetStart, sourceStart, sourceEnd): the target afterwards
Copy(src, target, targetStart, sourceStart, sourceEnd) ==
    LET n == Max(0, Min(Min(sourceEnd, BufLen(src)) - sourceStart,
                        BufLen(target) - targetStart))
    IN  BufTake(target, targetStart)
          \o Slice(src, sourceStart, sourceStart + n)
          \o BufDrop(target, targetStart + n)

\* buf.readUInt8(i), for 0 <= i < length
RECURSIVE ReadUInt8(_, _)
ReadUInt8(buf, i) ==
    IF i < buf[1].len
    THEN buf[1].pat[((buf[1].off + i) % Len(buf[1].pat)) + 1]
    ELSE ReadUInt8(Tail(buf), i - buf[1].len)

\* Buffer.alloc(size, fill): the bytes of fill repeated from the start
BufferAllocFill(size, fill) ==
    IF size = 0 THEN <<>>
    ELSE <<Segment(size, 0, [i \in 1 .. BufLen(fill) |-> ReadUInt8(fill, i - 1)])>>

(***************************************************************************)
(* The device handle.  A write or feature report either is accepted, and   *)
(* then joins the log, or throws; once something has thrown, the rest of   *)
(* the operation is skipped.  st.failAt numbers the handle call of this    *)
(* operation that throws (0: none); a handle that has been closed accepts  *)
(* nothing.                                                                *)
(***************************************************************************)
Begin(failAt, closed) ==
    [out |-> <<>>, inner |-> <<>>, n |-> 0, failAt |-> failAt, closed |-> closed,
     threw |-> 0, result |-> "ok"]

Throw(st, error) == IF st.result = "ok" THEN [st EXCEPT !.result = error] ELSE st

DeviceCall(st, via, data) ==
    IF st.result # "ok" THEN st
    ELSE IF st.closed \/ st.n + 1 = st.failAt
    THEN [st EXCEPT !.n = st.n + 1, !.threw = st.threw + 1, !.result = "TransportError"]
    ELSE [st EXCEPT !.n = st.n + 1, !.out = Append(st.out, [via |-> via, data |-> data])]

(***************************************************************************)
(* Panel codec.                                                            *)
(***************************************************************************)
Page1Header ==
    << 2, 0, 0, 0, 0, 64, 31, 0, 0, 85, 170, 170, 85, 17, 34, 51,
       68, 66, 77, 246, 60, 0, 0, 0, 0, 0, 0, 54, 0, 0, 0, 40,
       0, 0, 0, 72, 0, 0, 0, 72, 0, 0, 0, 1, 0, 24, 0, 0,
       0, 0, 0, 192, 60, 0, 0, 19, 11, 0, 0, 19, 11, 0, 0, 0,
       0, 0, 0, 0, 0, 0, 0 >>

Page2Header ==
    << 2, 64, 31, 0, 0, 182, 29, 0, 0, 85, 170, 170, 85, 17, 34, 51, 68 >>

CommitReport(keyIndex) ==
    << 0, 18, 1, 0, 0, keyIndex + 1, 0, 0,
       0, 0, 0, 0, 0, 0, 0, 0,
       0, 246, 60, 0, 0, 0, 0, 0,
       0, 0, 0, 0, 0, 0, 0, 0,
       0, 0 >>

\* variant: a refused write of the first page is swallowed
writePage1Swallows(st, keyIndex, buffer) ==
    LET header == BufferFrom(Page1Header)
        packet == Copy(header, BufferAlloc(PAGE_PACKET_SIZE), 0, 0, BufLen(header))
        filled == Copy(buffer, packet, BufLen(header), 0,
                       Min(PAGE_PACKET_SIZE - BufLen(header), BufLen(buffer)))
        r == DeviceCall(st, "write", filled)
    IN  IF st.result = "ok" /\ r.result = "TransportError"
        THEN [r EXCEPT !.result = "ok"]
        ELSE r

_writePage1(st, keyIndex, buffer) ==
    LET header == BufferFrom(Page1Header)
        packet == Copy(header, BufferAlloc(PAGE_PACKET_SIZE), 0, 0, BufLen(header))
        filled == Copy(buffer, packet, BufLen(header), 0,
                       Min(PAGE_PACKET_SIZE - BufLen(header), BufLen(buffer)))
    IN  DeviceCall(st, "write", filled)

_writePage2(st, keyIndex, buffer) ==
    LET header == BufferFrom(Page2Header)
        packet == Copy(header, BufferAlloc(PAGE_PACKET_SIZE), 0, 0, BufLen(header))
        filled == Copy(buffer, packet, BufLen(header), 0,
                       Min(PAGE_PACKET_SIZE - BufLen(header), BufLen(buffer)))
    IN  DeviceCall(st, "write", filled)

\* variant: the second page taken one byte late
writePixelDataDropsByte(st, keyIndex, pixels) ==
    LET firstPagePixels == Slice(pixels, 0, 7946)
        secondPagePixels == Slice(pixels, 7947, NUM_TOTAL_PIXELS * 3)
        s1 == _writePage1(st, keyIndex, firstPagePixels)
        s2 == _writePage2(s1, keyIndex, secondPagePixels)
    IN  DeviceCall(s2, "sendFeatureReport", BufferFrom(CommitReport(keyIndex)))

\* variant: the commit report sent before the second page
writePixelDataCommitEarly(st, keyIndex, pixels) ==
    LET firstPagePixels == Slice(pixels, 0, 7946)
        secondPagePixels == Slice(pixels, 7946, NUM_TOTAL_PIXELS * 3)
        s1 == _writePage1(st, keyIndex, firstPagePixels)
        s2 == DeviceCall(s1, "sendFeatureReport", BufferFrom(CommitReport(keyIndex)))
    IN  _writePage2(s2, keyIndex, secondPagePixels)

_writePixelData(st, keyIndex, pixels) ==
    LET firstPagePixels == Slice(pixels, 0, 7946)
        secondPagePixels == Slice(pixels, 7946, NUM_TOTAL_PIXELS * 3)
        s1 == _writePage1(st, keyIndex, firstPagePixels)
        s2 == _writePage2(s1, keyIndex, secondPagePixels)
    IN  DeviceCall(s2, "sendFeatureReport", BufferFrom(CommitReport(keyIndex)))

\* variant: the upper bound off by one
checkRGBValueLoose(st, value) ==
    IF value < 0 \/ value > 256 THEN Throw(st, "TypeError") ELSE st

checkRGBValue(st, value) ==
    IF value < 0 \/ value > 255 THEN Throw(st, "TypeError") ELSE st

checkValidKeyIndex(st, keyIndex) ==
    IF keyIndex < 0 \/ keyIndex > 14 THEN Throw(st, "TypeError") ELSE st

\* statements after a throw do not run
Then(st, next) == IF st.result = "ok" THEN next ELSE st

\* variant: the pixel kept in the caller's red, green, blue order
fillColorRGB(st, keyIndex, r, g, b) ==
    LET c0 == checkValidKeyIndex(st, keyIndex)
        c1 == Then(c0, checkRGBValue(c0, r))
        c2 == Then(c1, checkRGBValue(c1, g))
        c3 == Then(c2, checkRGBValue(c2, b))
        pixel == BufferFrom(<<r, g, b>>)
    IN  Then(c3, _writePixelData(c3, keyIndex, BufferAllocFill(15552, pixel)))

fillColor(st, keyIndex, r, g, b) ==
    LET c0 == checkValidKeyIndex(st, keyIndex)
        c1 == Then(c0, checkRGBValue(c0, r))
        c2 == Then(c1, checkRGBValue(c1, g))
        c3 == Then(c2, checkRGBValue(c2, b))
        pixel == BufferFrom(<<b, g, r>>)
    IN  Then(c3, _writePixelData(c3, keyIndex, BufferAllocFill(15552, pixel)))

\* variant: the key cleared to white
clearKeyWhite(st, keyIndex) ==
    LET c0 == checkValidKeyIndex(st, keyIndex)
    IN  Then(c0, _writePixelData(c0, keyIndex, BufferAllocFill(15552, BufferFrom(<<255>>))))

clearKey(st, keyIndex) ==
    LET c0 == checkValidKeyIndex(st, keyIndex)
    IN  Then(c0, _writePixelData(c0, keyIndex, BufferAlloc(15552)))

RECURSIVE clearAllKeysFrom(_, _, _)
clearAllKeysFrom(st, keyIndex, buffer) ==
    IF ~(keyIndex < NUM_KEYS) \/ st.result # "ok" THEN st
    ELSE clearAllKeysFrom(_writePixelData(st, keyIndex, buffer), keyIndex + 1, buffer)

\* variant: the loop started at key 1
clearAllKeysFromOne(st) == clearAllKeysFrom(st, 1, BufferAlloc(15552))

clearAllKeys(st) == clearAllKeysFrom(st, 0, BufferAlloc(15552))

\* variant: the range test made with exclusive bounds
setBrightnessExclusive(st, percentage) ==
    IF percentage <= 0 \/ percentage >= 100 THEN Throw(st, "RangeError")
    ELSE DeviceCall(st, "sendFeatureReport", BufferFrom(<<0, 17, percentage>>))

setBrightness(st, percentage) ==
    IF percentage < 0 \/ percentage > 100 THEN Throw(st, "RangeError")
    ELSE DeviceCall(st, "sendFeatureReport", BufferFrom(<<0, 17, percentage>>))

\* members an instance has: its own fields and the prototype's methods; the
\* static getters ICON_SIZE, NUM_KEYS and NUM_KEYS_PER_ROW belong to the class
InstanceMembers ==
    { "device", "keyState", "fillColor", "fillImage", "fillPanelImage",
      "_fillImageInner", "clearKey", "clearAllKeys", "setBrightness", "close",
      "_writePixelData", "_writePage1", "_writePage2" }

\* this.ICON_SIZE
ThisIconSize == IF "ICON_SIZE" \in InstanceMembers THEN JsNum(ICON_SIZE) ELSE JsUndefined

\* identifiers bound where _fillImageInner computes srcOffset
InnerScope ==
    { "EventEmitter", "HID", "NUM_KEYS", "NUM_KEYS_PER_ROW", "PAGE_PACKET_SIZE",
      "ICON_SIZE", "NUM_TOTAL_PIXELS", "Infinitton",
      "keyIndex", "imageBuffer", "stride", "offset", "byteBuffer",
      "y", "rowOffset", "x", "x2" }

\* the buffer the loops of _fillImageInner fill, were srcRow[y] the source row
\* read for target row y
DeviceOrder(imageBuffer, stride, offset, srcRow) ==
    <<Segment(15552, 0,
        [t \in 1 .. 15552 |->
            LET y == (t - 1) \div (72 * 3)
                x == ((t - 1) % (72 * 3)) \div 3
                c == (t - 1) % 3
                x2 == 72 - x - 1
                srcOffset == srcRow[y] * stride + offset + x2 * 3
            IN  ReadUInt8(imageBuffer, srcOffset + (2 - c))])>>

_fillImageInner(st, keyIndex, imageBuffer, stride, offset) ==
    LET entered == [st EXCEPT !.inner = Append(st.inner,
                        [keyIndex |-> keyIndex, stride |-> stride, offset |-> offset])]
    IN  \* y = 0, x = 0: const srcOffset = y2 * stride + offset + x2 * 3
        IF "y2" \notin InnerScope THEN Throw(entered, "ReferenceError")
        ELSE IF ToNumber(offset)[1] = "NaN" THEN Throw(entered, "RangeError")
        ELSE _writePixelData(entered, keyIndex,
                 DeviceOrder(imageBuffer, stride[2], offset[2], [y \in 0 .. 71 |-> y]))

fillImage(st, keyIndex, imageBuffer) ==
    LET c0 == checkValidKeyIndex(st, keyIndex)
        c1 == Then(c0, IF BufLen(imageBuffer) # 15552 THEN Throw(c0, "RangeError") ELSE c0)
    IN  Then(c1, _fillImageInner(c1, keyIndex, imageBuffer, JsNum(72 * 3), JsNum(0)))

RECURSIVE fillPanelImageFrom(_, _, _, _)
fillPanelImageFrom(st, imageBuffer, row, column) ==
    LET iconSize == ICON_SIZE * 3
        stride == iconSize * NUM_KEYS_PER_ROW
        rowOffset == JsMul(JsNum(stride * row), ThisIconSize)
        index == row * NUM_KEYS_PER_ROW + column
        colOffset == column * iconSize
    IN  IF st.result # "ok" \/ ~(row < NUM_KEYS \div NUM_KEYS_PER_ROW) THEN st
        ELSE IF ~(column < NUM_KEYS_PER_ROW) THEN fillPanelImageFrom(st, imageBuffer, row + 1, 0)
        ELSE fillPanelImageFrom(
                 _fillImageInner(st, index, imageBuffer, JsNum(stride),
                                 JsAdd(rowOffset, JsNum(colOffset))),
                 imageBuffer, row, column + 1)

fillPanelImage(st, imageBuffer) ==
    IF BufLen(imageBuffer) # 15552 * NUM_KEYS THEN Throw(st, "RangeError")
    ELSE fillPanelImageFrom(st, imageBuffer, 0, 0)

(***************************************************************************)
(* Inputs of the public operations in this model.                          *)
(***************************************************************************)
Keys == {-1, 0, 14, 15}
Colors == { <<0, 0, 0>>, <<255, 2, 3>>,
            <<-1, 0, 0>>, <<0, 256, 0>>, <<0, 0, 256>> }
Percentages == {-1, 0, 50, 100, 101}
FailPoints == 0 .. MaxFailAt

\* a 72x72 image whose pixel (x, y) is (x, y, 0)
SyntheticIcon ==
    [i \in 1 .. 15552 |->
        LET p == (i - 1) \div 3
            c == (i - 1) % 3
        IN  IF c = 0 THEN p % 72 ELSE IF c = 1 THEN p \div 72 ELSE 0]

IconImages == {"icon", "iconShort", "iconLong"}
PanelImages == {"panel", "panelShort", "panelLong", "icon"}

ImageBuffer(id) ==
    CASE id = "icon" -> <<Segment(15552, 0, SyntheticIcon)>>
      [] id = "iconShort" -> <<Segment(15551, 0, SyntheticIcon)>>
      [] id = "iconLong" -> <<Segment(15553, 0, SyntheticIcon)>>
      [] id = "panel" -> <<Segment(15552 * 15, 0, <<10, 20, 30, 40, 50, 60, 70>>)>>
      [] id = "panelShort" -> <<Segment(15552 * 15 - 1, 0, <<10, 20, 30, 40, 50, 60, 70>>)>>
      [] id = "panelLong" -> <<Segment(15552 * 15 + 1, 0, <<10, 20, 30, 40, 50, 60, 70>>)>>

(***************************************************************************)
(* The public operations as actions.                                       *)
(***************************************************************************)
Call(op, keyIndex, color, image, percentage, result) ==
    [op |-> op, keyIndex |-> keyIndex, color |-> color, image |-> image,
     percentage |-> percentage, result |-> result]

\* the operation ran to st: what it handed to the device joins the log
Finish(op, keyIndex, color, image, percentage, st) ==
    /\ nCalls < MaxCalls
    /\ sent' = sent \o st.out
    /\ prevSent' = sent
    /\ lastCall' = Call(op, keyIndex, color, image, percentage, st.result)
    /\ innerCalls' = st.inner
    /\ threw' = st.threw
    /\ nCalls' = nCalls + 1
    /\ UNCHANGED trackerVars

FillColor(keyIndex, color, failAt) ==
    /\ Finish("fillColor", keyIndex, color, "none", 0,
              fillColor(Begin(failAt, closeCalls > 0), keyIndex, color[1], color[2], color[3]))
    /\ UNCHANGED closeCalls

FillImage(keyIndex, image, failAt) ==
    /\ Finish("fillImage", keyIndex, <<>>, image, 0,
              fillImage(Begin(failAt, closeCalls > 0), keyIndex, ImageBuffer(image)))
    /\ UNCHANGED closeCalls

FillPanelImage(image, failAt) ==
    /\ Finish("fillPanelImage", 0, <<>>, image, 0,
              fillPanelImage(Begin(failAt, closeCalls > 0), ImageBuffer(image)))
    /\ UNCHANGED closeCalls

ClearKey(keyIndex, failAt) ==
    /\ Finish("clearKey", keyIndex, <<>>, "none", 0,
              clearKey(Begin(failAt, closeCalls > 0), keyIndex))
    /\ UNCHANGED closeCalls

ClearAllKeys(failAt) ==
    /\ Finish("clearAllKeys", 0, <<>>, "none", 0, clearAllKeys(Begin(failAt, closeCalls > 0)))
    /\ UNCHANGED closeCalls

SetBrightness(percentage, failAt) ==
    /\ Finish("setBrightness", 0, <<>>, "none", percentage,
              setBrightness(Begin(failAt, closeCalls > 0), percentage))
    /\ UNCHANGED closeCalls

\* close() { this.device.close() }
Close(failAt) ==
    /\ Finish("close", 0, <<>>, "none", 0,
              IF failAt = 1
              THEN [Throw(Begin(failAt, closeCalls > 0), "TransportError") EXCEPT !.threw = 1]
              ELSE Begin(failAt, closeCalls > 0))
    /\ closeCalls' = closeCalls + 1

CodecInit ==
    /\ sent = <<>>
    /\ prevSent = <<>>
    /\ lastCall = Call("none", 0, <<>>, "none", 0, "ok")
    /\ innerCalls = <<>>
    /\ closeCalls = 0
    /\ threw = 0
    /\ nCalls = 0

Init == TrackerInit /\ CodecInit

TrackerNext ==
    \/ \E data \in Reports : DeliverData(data)
    \/ \E err \in TransportErrors : DeliverError(err)

CodecNext ==
    \/ \E k \in Keys, c \in Colors, f \in FailPoints : FillColor(k, c, f)
    \/ \E k \in Keys, i \in IconImages, f \in FailPoints : FillImage(k, i, f)
    \/ \E i \in PanelImages, f \in FailPoints : FillPanelImage(i, f)
    \/ \E k \in Keys, f \in FailPoints : ClearKey(k, f)
    \/ \E f \in FailPoints \cup {3 * NUM_KEYS} : ClearAllKeys(f)
    \/ \E p \in Percentages, f \in FailPoints : SetBrightness(p, f)
    \/ \E f \in {0, 1} : Close(f)

Next == TrackerNext \/ CodecNext

Spec == Init /\ [][Next]_vars
TrackerSpec == Init /\ [][TrackerNext]_vars
CodecSpec == Init /\ [][CodecNext]_vars

(***************************************************************************)
(* Vocabulary of the properties.                                           *)
(***************************************************************************)
\* what the latest public operation handed to the device
Appended == SubSeq(sent, Len(prevSent) + 1, Len(sent))

\* the bit the 'data' handler reads for key k is set in the report
DecodedPressed(data, k) ==
    \E i \in 1 .. Len(KeyReads) :
        /\ KeyReads[i].key = k
        /\ Truthy(BitAnd(DataAt(data, KeyReads[i].byte), JsNum(KeyReads[i].mask)))

EventsFor(k) == SelectSeq(emitted, LAMBDA e : e.key = k)

StartsWith(buf, bytes) ==
    /\ BufLen(buf) >= Len(bytes)
    /\ \A i \in 1 .. Len(bytes) : ReadUInt8(buf, i - 1) = bytes[i]

IsPage1(e) == e.via = "write" /\ StartsWith(e.data, Page1Header)
IsPage2(e) == e.via = "write" /\ StartsWith(e.data, Page2Header)
IsCommit(e, k) ==
    /\ e.via = "sendFeatureReport"
    /\ BufLen(e.data) = 34
    /\ ReadUInt8(e.data, 5) = k + 1

\* entries i+1, i+2, i+3 of log are the page-1, page-2 and commit writes of key k
TriadAt(log, i, k) ==
    /\ Len(log) >= i + 3
    /\ IsPage1(log[i + 1])
    /\ IsPage2(log[i + 2])
    /\ IsCommit(log[i + 3], k)

ValidKey(k) == k \in 0 .. 14

(***************************************************************************)
(* C1: from construction (all 15 keys stored as released), for every       *)
(* inbound report and every key: if the decoded pressed state differs from *)
(* the stored one, the stored state is updated and exactly one event is    *)
(* emitted for the key (down if pressed, up if released); otherwise no     *)
(* event is emitted for it.  A first report with no bit set emits nothing. *)
(***************************************************************************)
C1_EdgeEvents ==
    (lastReport.kind = "data" /\ Len(lastReport.data) >= 3) =>
        \A k \in KeyIndices :
            LET now == DecodedPressed(lastReport.data, k)
                before == Truthy(prevKeyState[k])
            IN  IF now # before
                THEN /\ Truthy(keyState[k]) = now
                     /\ EventsFor(k) = <<Event(IF now THEN "down" ELSE "up", k, "none")>>
                ELSE EventsFor(k) = <<>>

(***************************************************************************)
(* C2: a public operation called with an invalid argument fails with a     *)
(* validation error and hands nothing to the device: the log of what was   *)
(* sent is the same after the call as before it.                           *)
(***************************************************************************)
InvalidCall(c) ==
    \/ c.op \in {"fillColor", "fillImage", "clearKey"} /\ ~ValidKey(c.keyIndex)
    \/ c.op = "fillColor" /\ \E i \in 1 .. 3 : c.color[i] \notin 0 .. 255
    \/ c.op = "fillImage" /\ BufLen(ImageBuffer(c.image)) # 15552
    \/ c.op = "fillPanelImage" /\ BufLen(ImageBuffer(c.image)) # 15552 * 15
    \/ c.op = "setBrightness" /\ c.percentage \notin 0 .. 100

C2_ValidationBeforeIO ==
    InvalidCall(lastCall) =>
        /\ lastCall.result \in {"TypeError", "RangeError"}
        /\ sent = prevSent

C2_Witness ==
    /\ lastCall.op = "fillColor"
    /\ ValidKey(lastCall.keyIndex)
    /\ lastCall.color = <<0, 256, 0>>
    /\ lastCall.result = "TypeError"
    /\ Len(prevSent) = 3
    /\ sent = prevSent

(***************************************************************************)
(* C3: fillImage(k, buffer) with k in 0..14 succeeds when the buffer       *)
(* length is exactly 15552, returning normally after the key's page-1,     *)
(* page-2 and commit writes, and is rejected for lengths 15551 and 15553.  *)
(* (An operation the device handle itself refused is not counted.)         *)
(***************************************************************************)
C3_FillImageExactLength ==
    (lastCall.op = "fillImage" /\ ValidKey(lastCall.keyIndex)) =>
        IF BufLen(ImageBuffer(lastCall.image)) = 15552
        THEN \/ lastCall.result = "TransportError"
             \/ /\ lastCall.result = "ok"
                /\ Len(Appended) = 3
                /\ TriadAt(Appended, 0, lastCall.keyIndex)
        ELSE lastCall.result = "RangeError" /\ sent = prevSent

(***************************************************************************)
(* C4: every successful single-key write hands the device exactly three    *)
(* buffers in the order page-1 packet, page-2 packet, commit report, the   *)
(* commit being 34 bytes with keyIndex + 1 as its 6th byte; nothing else   *)
(* falls between the three writes of one key.                              *)
(***************************************************************************)
C4_WriteTriads ==
    lastCall.result = "ok" =>
        /\ lastCall.op \in {"fillColor", "fillImage", "clearKey"} =>
              /\ Len(Appended) = 3
              /\ TriadAt(Appended, 0, lastCall.keyIndex)
        /\ lastCall.op \in {"clearAllKeys", "fillPanelImage"} =>
              /\ Len(Appended) = 3 * NUM_KEYS
              /\ \A k \in KeyIndices : TriadAt(Appended, 3 * k, k)
        /\ sent = prevSent \o Appended

C4_Witness ==
    /\ lastCall.op = "fillColor"
    /\ lastCall.keyIndex = 14
    /\ lastCall.result = "ok"
    /\ Len(prevSent) = 3 * NUM_KEYS
    /\ Len(sent) = 3 * NUM_KEYS + 3
    /\ ReadUInt8(sent[Len(sent)].data, 5) = 15

(***************************************************************************)
(* C5: for a fillImage of a valid 72x72 RGB buffer, the device-order       *)
(* buffer that is sent holds at row y, column 71 - x the source pixel of   *)
(* row y, column x, its channels in blue, green, red order.                *)
(***************************************************************************)
\* byte i of the device-order buffer carried by a page-1 and a page-2 packet
DevicePixelByte(page1, page2, i) ==
    IF i < 7946 THEN ReadUInt8(page1.data, Len(Page1Header) + i)
    ELSE ReadUInt8(page2.data, Len(Page2Header) + (i - 7946))

C5_MirrorBGR ==
    (/\ lastCall.op = "fillImage"
     /\ ValidKey(lastCall.keyIndex)
     /\ BufLen(ImageBuffer(lastCall.image)) = 15552
     /\ lastCall.result # "TransportError") =>
        /\ lastCall.result = "ok"
        /\ Len(Appended) = 3
        /\ \A y \in 0 .. 71, x \in 0 .. 71, c \in 0 .. 2 :
              DevicePixelByte(Appended[1], Appended[2], y * 216 + (71 - x) * 3 + c)
                  = ReadUInt8(ImageBuffer(lastCall.image), y * 216 + x * 3 + (2 - c))

(***************************************************************************)
(* C6: fillPanelImage with a buffer of exactly 15552*15 bytes reads the    *)
(* sub-region of the key at grid (row, column) with stride 1080 from byte  *)
(* offset row*72*1080 + column*216, so key 7 reads from offset 78192; a    *)
(* buffer of any other length is rejected.                                 *)
(***************************************************************************)
C6_PanelOffsets ==
    lastCall.op = "fillPanelImage" =>
        IF BufLen(ImageBuffer(lastCall.image)) = 15552 * 15
        THEN lastCall.result # "TransportError" =>
                /\ \A k \in KeyIndices : \E i \in 1 .. Len(innerCalls) :
                      /\ innerCalls[i].keyIndex = k
                      /\ innerCalls[i].stride = JsNum(1080)
                      /\ innerCalls[i].offset = JsNum((k \div 5) * 72 * 1080 + (k % 5) * 216)
                /\ \E i \in 1 .. Len(innerCalls) :
                      innerCalls[i].keyIndex = 7 /\ innerCalls[i].offset = JsNum(78192)
        ELSE lastCall.result = "RangeError" /\ sent = prevSent

(***************************************************************************)
(* C7: when one inbound report changes several keys, the events are        *)
(* emitted in ascending key index order.                                   *)
(***************************************************************************)
\* the latest report changed the pressed state of key k
Changed(k) == DecodedPressed(lastReport.data, k) # Truthy(prevKeyState[k])

C7_AscendingOrder ==
    (lastReport.kind = "data" /\ Len(lastReport.data) >= 3) =>
        \A i, j \in 1 .. Len(emitted) :
            (i < j /\ Changed(emitted[i].key) /\ Changed(emitted[j].key))
                => emitted[i].key < emitted[j].key

(***************************************************************************)
(* C7 as amended: the events of one report are emitted in the fixed order  *)
(* 4,3,2,1,0, 9,8,7,6,5, 14,13,12,11,10: rows in ascending order, the keys *)
(* of a row in descending index order.                                     *)
(***************************************************************************)
EmissionOrder == <<4, 3, 2, 1, 0, 9, 8, 7, 6, 5, 14, 13, 12, 11, 10>>

Position(k) == CHOOSE p \in 1 .. Len(EmissionOrder) : EmissionOrder[p] = k

C7_RowWiseDescendingOrder ==
    lastReport.kind = "data" =>
        \A i, j \in 1 .. Len(emitted) :
            i < j => Position(emitted[i].key) < Position(emitted[j].key)

C7_Witness ==
    /\ lastReport.kind = "data"
    /\ nReports > 1
    /\ emitted = <<Event("down", 4, "none"), Event("up", 8, "none"),
                   Event("up", 7, "none")>>

(***************************************************************************)
(* C8: delivering an inbound report shorter than 3 bytes is an error that  *)
(* is reported to the caller, not silently ignored or decoded as if the    *)
(* missing bytes were zero.                                                *)
(***************************************************************************)
C8_ShortReportIsError ==
    (lastReport.kind = "data" /\ Len(lastReport.data) < 3) =>
        /\ \E i \in 1 .. Len(emitted) : emitted[i].name = "error"
        /\ keyState = prevKeyState

(***************************************************************************)
(* C9: close releases the device handle exactly once; after close every    *)
(* further public operation is an error, and the handle is never released  *)
(* a second time.                                                          *)
(***************************************************************************)
ClosedBeforeLastCall ==
    IF lastCall.op = "close" THEN closeCalls > 1 ELSE closeCalls > 0

C9_CloseOnce ==
    /\ closeCalls <= 1
    /\ ClosedBeforeLastCall => lastCall.result # "ok"

(***************************************************************************)
(* C10: for every key index in 0..14 and every valid color (r,g,b),        *)
(* fillColor sends a page-1 payload equal to 7946 bytes of repeated        *)
(* (b,g,r) and a page-2 payload equal to 7606 bytes of the same repeated   *)
(* triple.                                                                 *)
(***************************************************************************)
Page1Payload(e, i) == ReadUInt8(e.data, Len(Page1Header) + i)
Page2Payload(e, i) == ReadUInt8(e.data, Len(Page2Header) + i)

FillColorSucceeded == lastCall.op = "fillColor" /\ lastCall.result = "ok"

\* the triple (b,g,r) of the latest call
Triple == <<lastCall.color[3], lastCall.color[2], lastCall.color[1]>>

C10_RepeatedTriple ==
    FillColorSucceeded =>
        /\ \A i \in 0 .. 7945 : Page1Payload(Appended[1], i) = Triple[(i % 3) + 1]
        /\ \A i \in 0 .. 7605 : Page2Payload(Appended[2], i) = Triple[(i % 3) + 1]

(***************************************************************************)
(* C10 as amended: the page-1 payload is 7946 bytes of repeated (b,g,r);   *)
(* the page-2 payload is the 7606 bytes that continue that repetition      *)
(* where page 1 stopped, so it starts with r: its byte i is element        *)
(* (7946 + i) mod 3 of the triple.                                         *)
(***************************************************************************)
C10_ContinuedTriple ==
    FillColorSucceeded =>
        /\ \A i \in 0 .. 7945 : Page1Payload(Appended[1], i) = Triple[(i % 3) + 1]
        /\ \A i \in 0 .. 7605 :
              Page2Payload(Appended[2], i) = Triple[((7946 + i) % 3) + 1]

C10_Witness ==
    /\ FillColorSucceeded
    /\ lastCall.color = <<255, 2, 3>>
    /\ lastCall.keyIndex = 14
    /\ Page1Payload(Appended[1], 7945) = 2
    /\ Page2Payload(Appended[2], 0) = 255

(***************************************************************************)
(* C11: setBrightness(p) with p in 0..100, both bounds included, issues    *)
(* exactly one feature report, the 3 bytes [0x00, 0x11, p], and no other   *)
(* write; a value outside 0..100 (-1, 101) is rejected.  (A call the       *)
(* device handle itself refuses issues nothing.)                           *)
(***************************************************************************)
\* the bytes of a buffer, first to last
Bytes(buf) == [i \in 1 .. BufLen(buf) |-> ReadUInt8(buf, i - 1)]

C11_Brightness ==
    lastCall.op = "setBrightness" =>
        IF lastCall.percentage \in 0 .. 100
        THEN \/ lastCall.result = "TransportError" /\ Appended = <<>>
             \/ /\ lastCall.result = "ok"
                /\ Len(Appended) = 1
                /\ Appended[1].via = "sendFeatureReport"
                /\ Bytes(Appended[1].data) = <<0, 17, lastCall.percentage>>
        ELSE lastCall.result = "RangeError" /\ sent = prevSent

C11_Witness ==
    /\ lastCall.op = "setBrightness"
    /\ lastCall.percentage = 100
    /\ lastCall.result = "ok"
    /\ Len(prevSent) = 3
    /\ Bytes(sent[4].data) = <<0, 17, 100>>

(***************************************************************************)
(* C12: in any reachable tracker state, delivering a report and then the   *)
(* identical bytes again emits no event on the second delivery and leaves  *)
(* the state table unchanged; a report that sets the bit of a released key *)
(* emits exactly one down event for it, and a report that clears the bit   *)
(* of a pressed key emits exactly one up event for it.                     *)
(***************************************************************************)
RepeatedReport ==
    /\ lastReport.kind = "data"
    /\ prevReport.kind = "data"
    /\ lastReport.data = prevReport.data

C12_RepeatIsSilent ==
    /\ RepeatedReport => (emitted = <<>> /\ keyState = prevKeyState)
    /\ lastReport.kind = "data" =>
          \A k \in KeyIndices :
              LET now == DecodedPressed(lastReport.data, k)
                  before == Truthy(prevKeyState[k])
              IN  /\ (now /\ ~before) => EventsFor(k) = <<Event("down", k, "none")>>
                  /\ (~now /\ before) => EventsFor(k) = <<Event("up", k, "none")>>

C12_Witness ==
    /\ RepeatedReport
    /\ lastReport.data = <<1, 16, 0>>
    /\ Truthy(keyState[4])
    /\ lastEvent[4] = "down"
    /\ emitted = <<>>

(***************************************************************************)
(* C13: clearAllKeys issues 15 complete page-1/page-2/commit triads with   *)
(* all-zero pixel payloads, one per key index 0..14 in ascending order     *)
(* (commit selectors 1, 2, ..., 15); each key is committed on its own, so  *)
(* the keys written before a refused device call stay committed.           *)
(***************************************************************************)
\* every byte of a segment is zero: its bytes are the pattern's, from off on
SegmentIsZero(seg) ==
    \A j \in 0 .. (Min(seg.len, Len(seg.pat)) - 1) :
        seg.pat[((seg.off + j) % Len(seg.pat)) + 1] = 0

AllZero(buf) == \A s \in 1 .. Len(buf) : SegmentIsZero(buf[s])

\* the pixel payloads of a page-1 and a page-2 packet are all zero
ZeroPayloads(page1, page2) ==
    /\ AllZero(Slice(page1.data, Len(Page1Header), Len(Page1Header) + 7946))
    /\ AllZero(Slice(page2.data, Len(Page2Header), Len(Page2Header) + 7606))

C13_ClearAllKeys ==
    lastCall.op = "clearAllKeys" =>
        /\ lastCall.result \in {"ok", "TransportError"}
        /\ lastCall.result = "ok" => Len(Appended) = 3 * NUM_KEYS
        /\ \A k \in KeyIndices :
              (Len(Appended) >= 3 * k + 3) =>
                  /\ TriadAt(Appended, 3 * k, k)
                  /\ ZeroPayloads(Appended[3 * k + 1], Appended[3 * k + 2])
                  /\ Bytes(Appended[3 * k + 3].data) = CommitReport(k)

C13_Witness ==
    /\ lastCall.op = "clearAllKeys"
    /\ lastCall.result = "ok"
    /\ Len(prevSent) = 3
    /\ Len(sent) = 3 + 3 * NUM_KEYS
    /\ ReadUInt8(sent[Len(sent)].data, 5) = 15
    /\ ReadUInt8(sent[6].data, 5) = 1

(***************************************************************************)
(* C14: fillPanelImage with a correct-length buffer performs the           *)
(* single-key write exactly once for each of the 15 keys, covering the     *)
(* whole 5x3 grid, in key index order 0, 1, ..., 14.  (A call the device   *)
(* handle itself refused is not counted.)                                  *)
(***************************************************************************)
C14_PanelCoversGrid ==
    (/\ lastCall.op = "fillPanelImage"
     /\ BufLen(ImageBuffer(lastCall.image)) = 15552 * 15
     /\ lastCall.result # "TransportError") =>
        /\ lastCall.result = "ok"
        /\ Len(innerCalls) = NUM_KEYS
        /\ \A k \in KeyIndices : innerCalls[k + 1].keyIndex = k
        /\ Len(Appended) = 3 * NUM_KEYS
        /\ \A k \in KeyIndices : TriadAt(Appended, 3 * k, k)

(***************************************************************************)
(* C15: every page packet handed to the transport is exactly 8017 bytes:   *)
(* the page-1 packet is the 71-byte header followed by the first 7946      *)
(* bytes of the 15552-byte device-order buffer, the page-2 packet the      *)
(* 17-byte header followed by the remaining 7606 bytes and zero padding;   *)
(* the two payloads together are the whole device-order buffer, byte for   *)
(* byte.                                                                   *)
(***************************************************************************)
\* page packets come in pairs: the odd write of an operation is a page 1
PagePacketShape(log) ==
    \A j \in 1 .. Len(log) :
        log[j].via = "write" =>
            /\ BufLen(log[j].data) = 8017
            /\ IF j % 3 = 1
               THEN /\ IsPage1(log[j])
                    /\ Len(Page1Header) + 7946 = 8017
               ELSE /\ j % 3 = 2
                    /\ IsPage2(log[j])
                    /\ AllZero(Slice(log[j].data, Len(Page2Header) + 7606, 8017))

\* the pixel payloads of a page-1 and of a page-2 packet
PayloadOfPage1(e) == Slice(e.data, Len(Page1Header), Len(Page1Header) + 7946)
PayloadOfPage2(e) == Slice(e.data, Len(Page2Header), Len(Page2Header) + 7606)

\* byte i of buf is byte (phase + i) of the endlessly repeated pattern pat, for
\* every i: within a segment both sides repeat after Len(seg.pat) * Len(pat)
\* bytes, so that many bytes of each segment decide it
RECURSIVE RepeatsFrom(_, _, _)
RepeatsFrom(buf, pat, phase) ==
    IF buf = <<>> THEN TRUE
    ELSE LET seg == buf[1]
         IN  /\ \A j \in 0 .. (Min(seg.len, Len(seg.pat) * Len(pat)) - 1) :
                    seg.pat[((seg.off + j) % Len(seg.pat)) + 1]
                        = pat[((phase + j) % Len(pat)) + 1]
             /\ RepeatsFrom(Tail(buf), pat, phase + seg.len)

\* the device-order buffer the latest call built repeats this pattern
DeviceOrderPattern == IF lastCall.op = "fillColor" THEN Triple ELSE <<0>>

\* byte i of the device-order buffer the latest call built
DeviceOrderByte(i) == DeviceOrderPattern[(i % Len(DeviceOrderPattern)) + 1]

C15_PagePackets ==
    /\ PagePacketShape(Appended)
    /\ (lastCall.op \in {"fillColor", "clearKey"} /\ lastCall.result = "ok") =>
          LET first == PayloadOfPage1(Appended[1])
              second == PayloadOfPage2(Appended[2])
          IN  /\ BufLen(first) = 7946
              /\ BufLen(second) = 7606
              /\ RepeatsFrom(first, DeviceOrderPattern, 0)
              /\ RepeatsFrom(second, DeviceOrderPattern, 7946)
              /\ \A i \in {0, 1, 2, 7945, 7946, 7947, 15551} :
                    DevicePixelByte(Appended[1], Appended[2], i) = DeviceOrderByte(i)

C15_Witness ==
    /\ lastCall.op = "fillColor"
    /\ lastCall.result = "ok"
    /\ lastCall.color = <<255, 2, 3>>
    /\ BufLen(Appended[2].data) = 8017
    /\ ReadUInt8(Appended[2].data, Len(Page2Header) + 7605) = 255
    /\ ReadUInt8(Appended[2].data, Len(Page2Header) + 7606) = 0
    /\ DevicePixelByte(Appended[1], Appended[2], 7946) = 255

(***************************************************************************)
(* C16: after a report of at least 3 bytes, the state held for key k is    *)
(* pressed exactly when the bit of the bit map is set: keys 0..7 are bits  *)
(* 0x01..0x80 of byte 1, keys 8..14 bits 0x01..0x40 of byte 2; byte 0 and  *)
(* bit 0x80 of byte 2 influence no key.                                    *)
(***************************************************************************)
RECURSIVE Pow2(_)
Pow2(n) == IF n = 0 THEN 1 ELSE 2 * Pow2(n - 1)

\* bit with value m of byte b is set
BitSet(b, m) == (b \div m) % 2 = 1

\* the bit map of the report layout
BitMapPressed(data, k) ==
    IF k < 8 THEN BitSet(data[2], Pow2(k)) ELSE BitSet(data[3], Pow2(k - 8))

C16_BitMap ==
    (lastReport.kind = "data" /\ Len(lastReport.data) >= 3) =>
        \A k \in KeyIndices :
            Truthy(keyState[k]) <=> BitMapPressed(lastReport.data, k)

C16_Witness ==
    /\ lastReport.kind = "data"
    /\ lastReport.data = <<1, 129, 1>>
    /\ \A k \in KeyIndices : Truthy(keyState[k]) <=> k \in {0, 7, 8}

(***************************************************************************)
(* C17: for every keyIndex in 0..14, clearKey(keyIndex) and                *)
(* fillColor(keyIndex, 0, 0, 0) hand the device byte-identical page-1 and  *)
(* page-2 payloads, and both payloads are all zero.                        *)
(***************************************************************************)
\* the latest call is one of the two ways of blanking a key, and was accepted
BlankedKey ==
    /\ lastCall.result = "ok"
    /\ \/ lastCall.op = "clearKey"
       \/ lastCall.op = "fillColor" /\ lastCall.color = <<0, 0, 0>>

\* what the other way of blanking the same key hands to the device
OtherBlanking ==
    IF lastCall.op = "clearKey"
    THEN fillColor(Begin(0, FALSE), lastCall.keyIndex, 0, 0, 0).out
    ELSE clearKey(Begin(0, FALSE), lastCall.keyIndex).out

\* two page-1/page-2 pairs carry the same pixel payloads, byte for byte: each
\* payload of the one has the length of, and repeats the first byte of, the
\* matching payload of the other
SamePayloads(mine, other) ==
    /\ BufLen(PayloadOfPage1(mine[1])) = BufLen(PayloadOfPage1(other[1]))
    /\ BufLen(PayloadOfPage2(mine[2])) = BufLen(PayloadOfPage2(other[2]))
    /\ RepeatsFrom(PayloadOfPage1(mine[1]), <<Page1Payload(other[1], 0)>>, 0)
    /\ RepeatsFrom(PayloadOfPage1(other[1]), <<Page1Payload(mine[1], 0)>>, 0)
    /\ RepeatsFrom(PayloadOfPage2(mine[2]), <<Page2Payload(other[2], 0)>>, 0)
    /\ RepeatsFrom(PayloadOfPage2(other[2]), <<Page2Payload(mine[2], 0)>>, 0)

C17_ClearIsBlackFill ==
    BlankedKey =>
        LET mine == Appended
            other == OtherBlanking
        IN  /\ Len(mine) = 3
            /\ Len(other) = 3
            /\ ZeroPayloads(mine[1], mine[2])
            /\ ZeroPayloads(other[1], other[2])
            /\ SamePayloads(mine, other)

C17_Witness ==
    /\ lastCall.op = "clearKey"
    /\ lastCall.result = "ok"
    /\ lastCall.keyIndex = 14
    /\ Len(Appended) = 3
    /\ Page1Payload(Appended[1], 0) = 0
    /\ Page2Payload(Appended[2], 7605) = 0
    /\ Page1Payload(OtherBlanking[1], 7945) = 0

(***************************************************************************)
(* C18: each transport error the HID layer delivers is surfaced as exactly *)
(* one 'error' event carrying that error; the step throws nothing into an  *)
(* operation of the caller, makes no retry and no device call, and leaves  *)
(* the key state table unchanged.                                          *)
(***************************************************************************)
\* this step is the delivery of a transport error
ErrorDelivered ==
    /\ nReports' = nReports + 1
    /\ lastReport'.kind = "error"

KeyEventsFor(evs, k) ==
    SelectSeq(evs, LAMBDA e : e.key = k /\ e.name \in {"down", "up"})

C19_EventsAlternate ==
    [][\A k \in KeyIndices :
          LET mine == KeyEventsFor(emitted', k)
          IN  /\ Len(mine) <= 1
              /\ Len(mine) = 1 => mine[1].name # lastEvent[k]]_vars

C19_Witness ==
    /\ prevReport.kind = "data"
    /\ prevReport.data = <<1, 16, 0>>
    /\ lastReport.kind = "data"
    /\ lastReport.data = <<1, 0, 0>>
    /\ emitted = <<Event("up", 4, "none")>>
    /\ lastEvent[4] = "up"
    /\ nReports = 3

(***************************************************************************)
(* C20: when the device refuses the write of a key's page-1 or page-2      *)
(* packet, the failure reaches the caller of the fill operation and the    *)
(* operation sends no commit report for that key: a commit report is only  *)
(* ever sent right after both page writes of the same operation were       *)
(* accepted, and the refused write is not retried.                         *)
(***************************************************************************)
FillOps == {"fillColor", "fillImage", "fillPanelImage", "clearKey", "clearAllKeys"}

\* entry j of log is a commit report that follows its own two page writes
CommitFollowsPages(log, j) ==
    /\ j % 3 = 0
    /\ IsPage1(log[j - 2])
    /\ IsPage2(log[j - 1])
    /\ BufLen(log[j].data) = 34

C20_FailedWriteNoCommit ==
    lastCall.op \in FillOps =>
        /\ threw <= 1
        /\ threw = 1 <=> lastCall.result = "TransportError"
        /\ \A j \in 1 .. Len(Appended) :
              IF Appended[j].via = "sendFeatureReport"
              THEN CommitFollowsPages(Appended, j)
              ELSE /\ j % 3 # 0
                   /\ j % 3 = 1 => IsPage1(Appended[j])
                   /\ j % 3 = 2 => IsPage2(Appended[j])
        /\ lastCall.result = "TransportError" =>
              /\ Len(Appended) < 3 * NUM_KEYS
              /\ lastCall.op # "clearAllKeys" => Len(Appended) < 3
        /\ (lastCall.result = "TransportError" /\ Len(Appended) % 3 # 0) =>
              Appended[Len(Appended)].via = "write"

C20_Witness ==
    /\ lastCall.op = "fillColor"
    /\ lastCall.result = "TransportError"
    /\ threw = 1
    /\ Len(Appended) = 1
    /\ IsPage1(Appended[1])
    /\ closeCalls = 0

====
